---- MODULE Spec2Model ----
(***************************************************************************)
(* PathFindingLinkFactory: the canvas matrix / routing matrix cache, the   *)
(* matrix dimension calculation, the obstacle rasterizer and the           *)
(* coordinate translation of the smart-routing link factory.               *)
(*                                                                         *)
(* Matrices are JavaScript arrays, i.e. objects with identity: the model   *)
(* keeps them in a heap and the factory's fields hold references.  A cell  *)
(* matrix[y][x] of the code (0-based) is heap[ref][y + 1][x + 1] here.     *)
(* Coordinates are integers.                                               *)
(***************************************************************************)
EXTENDS Integers, Sequences, FiniteSets, TLC

VARIABLES
    nodes,              \* engine.diagramModel.nodes: sequence of {x, y, width, height}
    links,              \* engine.diagramModel.links: sequence of {sourcePort, targetPort, points}
    offsetWidth,        \* engine.canvas.offsetWidth
    offsetHeight,       \* engine.canvas.offsetHeight
    heap,               \* the live matrix objects: reference -> sequence of rows
    canvasMatrix,       \* this.canvasMatrix (a reference)
    routingMatrix,      \* this.routingMatrix (a reference)
    hAdjustmentFactor,  \* this.hAdjustmentFactor
    vAdjustmentFactor,  \* this.vAdjustmentFactor
    lastCall,           \* the call that was made last and how it ended
    epoch,              \* number of geometry changes so far
    canvasEpoch,        \* epoch at which the canvas matrix was last calculated
    routingEpoch,       \* epoch at which the routing matrix was last calculated
    items,              \* MoveItemsState: the items of engine.getModel(), by ID
    initialPositions,   \* MoveItemsState.initialPositions
    lastEvent,          \* MoveItemsState: the event handled last and how that ended
    activations,        \* MoveItemsState: number of calls of activated so far
    moveStart,          \* position of each item at its first move event of this activation
    moveEvents,         \* MoveItemsState: mouse-move events handled in this activation
    positionsShared     \* BasePositionModel: getPosition returns the object setPosition updates

vars == <<nodes, links, offsetWidth, offsetHeight, heap, canvasMatrix, routingMatrix,
          hAdjustmentFactor, vAdjustmentFactor, lastCall, epoch, canvasEpoch, routingEpoch,
          items, initialPositions, lastEvent, activations, moveStart, moveEvents,
          positionsShared>>

\* The variables of PathFindingLinkFactory and those of MoveItemsState.
factoryVars == <<nodes, links, offsetWidth, offsetHeight, heap, canvasMatrix, routingMatrix,
                 hAdjustmentFactor, vAdjustmentFactor, lastCall, epoch, canvasEpoch, routingEpoch>>
moveVars == <<items, initialPositions, lastEvent, activations, moveStart, moveEvents,
              positionsShared>>

geometry == <<nodes, links, offsetWidth, offsetHeight>>

ROUTING_SCALING_FACTOR == 5

\* ---------------------------------------------------------------- bounds

MaxNodes == 1
MaxLinks == 1
MaxChanges == 1
MaxPath == 3
MaxItems == 2
MaxActivations == 2
MaxMoves == 2

\* ---------------------------------------------------------------- inputs

Box(x, y, w, h) == [x |-> x, y |-> y, width |-> w, height |-> h]
Point(x, y) == [x |-> x, y |-> y]
Null == [isNull |-> TRUE]
Link(s, t, p) == [sourcePort |-> s, targetPort |-> t, points |-> p]

NodeBoxes ==
    { Box(0, 0, 0, 0), Box(0, 0, 5, 5), Box(-7, -3, 5, 4),
      Box(8, 2, 7, 3), Box(10, 5, 10, 10) }

LinkSet ==
    { Link(Null, Null, <<>>),
      Link(Box(3, 3, 2, 2), Null, <<Point(21, 4)>>),
      Link(Null, Box(-2, 11, 3, 3), <<>>),
      Link(Box(12, 0, 4, 4), Box(-6, 6, 1, 1), <<Point(0, 0), Point(-11, 17)>>) }

Viewports == { <<0, 0>>, <<20, 15>>, <<12, 9>> }

SeqsUpTo(S, n) == UNION { [1..k -> S] : k \in 0..n }

\* ---------------------------------------------------------------- Math, lodash

MathFloorDiv(a, b) == a \div b
MathCeilDiv(a, b) == -((-a) \div b)
MathAbs(a) == IF a < 0 THEN -a ELSE a
\* Math.ceil of a sum of integers
MathCeil(a) == a
MathMin(a, b) == IF a < b THEN a ELSE b
MathMax(a, b) == IF a > b THEN a ELSE b

RECURSIVE flatten(_)
flatten(ss) == IF ss = <<>> THEN <<>> ELSE Head(ss) \o flatten(Tail(ss))

\* The ports of the links that have both ports.
linkPortsOfConnectedLinks ==
    flatten([i \in 1..Len(links) |->
                IF links[i].sourcePort = [isNull |-> TRUE] \/ links[i].targetPort = [isNull |-> TRUE]
                THEN <<>>
                ELSE <<links[i].sourcePort, links[i].targetPort>>])

\* _.flatMap(links.map(link => [link.sourcePort, link.targetPort]))
linkPorts == flatten([i \in 1..Len(links) |-> <<links[i].sourcePort, links[i].targetPort>>])

isPort(port) == port # Null

\* _.minBy / _.maxBy: the first element with the least / greatest key; the
\* collection must not be empty (lodash returns undefined for an empty one).
minByX(s) == s[CHOOSE i \in 1..Len(s) :
                 /\ \A j \in 1..Len(s) : s[i].x <= s[j].x
                 /\ \A j \in 1..(i - 1) : s[j].x > s[i].x]
minByY(s) == s[CHOOSE i \in 1..Len(s) :
                 /\ \A j \in 1..Len(s) : s[i].y <= s[j].y
                 /\ \A j \in 1..(i - 1) : s[j].y > s[i].y]
maxByRight(s) == s[CHOOSE i \in 1..Len(s) :
                 /\ \A j \in 1..Len(s) : s[i].x + s[i].width >= s[j].x + s[j].width
                 /\ \A j \in 1..(i - 1) : s[j].x + s[j].width < s[i].x + s[i].width]
maxByBottom(s) == s[CHOOSE i \in 1..Len(s) :
                 /\ \A j \in 1..Len(s) : s[i].y + s[i].height >= s[j].y + s[j].height
                 /\ \A j \in 1..(i - 1) : s[j].y + s[j].height < s[i].y + s[i].height]

\* ---------------------------------------------------------------- calculateMatrixDimensions

allNodesCoords == [i \in 1..Len(nodes) |-> Box(nodes[i].x, nodes[i].y, nodes[i].width, nodes[i].height)]

allPortsCoords ==
    LET ports == SelectSeq(linkPorts, isPort)
    IN  [i \in 1..Len(ports) |-> Box(ports[i].x, ports[i].y, ports[i].width, ports[i].height)]

allPointsCoords ==
    LET points == flatten([i \in 1..Len(links) |-> links[i].points])
    IN  [i \in 1..Len(points) |-> Box(points[i].x, points[i].y, 0, 0)]

allCoords == allNodesCoords \o allPortsCoords \o allPointsCoords

\* calculateMatrixDimensions without the + 1 of the adjustment factors.
calculateMatrixDimensionsNoMargin ==
    IF allCoords = <<>>
    THEN [threw |-> TRUE]
    ELSE
      LET minX == MathFloorDiv(MathMin(minByX(allCoords).x, 0), ROUTING_SCALING_FACTOR)
                    * ROUTING_SCALING_FACTOR
          maxXElement == maxByRight(allCoords)
          maxX == MathMax(maxXElement.x + maxXElement.width, offsetWidth)
          minY == MathFloorDiv(MathMin(minByY(allCoords).y, 0), ROUTING_SCALING_FACTOR)
                    * ROUTING_SCALING_FACTOR
          maxYElement == maxByBottom(allCoords)
          maxY == MathMax(maxYElement.y + maxYElement.height, offsetHeight)
      IN  [threw |-> FALSE,
           width |-> MathCeil(MathAbs(minX) + maxX),
           hAdjustmentFactor |-> MathAbs(minX) \div ROUTING_SCALING_FACTOR,
           height |-> MathCeil(MathAbs(minY) + maxY),
           vAdjustmentFactor |-> MathAbs(minY) \div ROUTING_SCALING_FACTOR]

\* calculateMatrixDimensions with the waypoints left out of the collection.
calculateMatrixDimensionsNoPoints ==
    IF allNodesCoords \o allPortsCoords = <<>>
    THEN [threw |-> TRUE]
    ELSE
      LET minX == MathFloorDiv(MathMin(minByX(allNodesCoords \o allPortsCoords).x, 0),
                               ROUTING_SCALING_FACTOR) * ROUTING_SCALING_FACTOR
          maxXElement == maxByRight(allNodesCoords \o allPortsCoords)
          maxX == MathMax(maxXElement.x + maxXElement.width, offsetWidth)
          minY == MathFloorDiv(MathMin(minByY(allNodesCoords \o allPortsCoords).y, 0),
                               ROUTING_SCALING_FACTOR) * ROUTING_SCALING_FACTOR
          maxYElement == maxByBottom(allNodesCoords \o allPortsCoords)
          maxY == MathMax(maxYElement.y + maxYElement.height, offsetHeight)
      IN  [threw |-> FALSE,
           width |-> MathCeil(MathAbs(minX) + maxX),
           hAdjustmentFactor |-> MathAbs(minX) \div ROUTING_SCALING_FACTOR + 1,
           height |-> MathCeil(MathAbs(minY) + maxY),
           vAdjustmentFactor |-> MathAbs(minY) \div ROUTING_SCALING_FACTOR + 1]

\* Reading .x of the undefined that _.minBy returns for an empty collection
\* throws a TypeError.
calculateMatrixDimensions ==
    IF allCoords = <<>>
    THEN [threw |-> TRUE]
    ELSE
      LET minX == MathFloorDiv(MathMin(minByX(allCoords).x, 0), ROUTING_SCALING_FACTOR)
                    * ROUTING_SCALING_FACTOR
          maxXElement == maxByRight(allCoords)
          maxX == MathMax(maxXElement.x + maxXElement.width, offsetWidth)
          minY == MathFloorDiv(MathMin(minByY(allCoords).y, 0), ROUTING_SCALING_FACTOR)
                    * ROUTING_SCALING_FACTOR
          maxYElement == maxByBottom(allCoords)
          maxY == MathMax(maxYElement.y + maxYElement.height, offsetHeight)
      IN  [threw |-> FALSE,
           width |-> MathCeil(MathAbs(minX) + maxX),
           hAdjustmentFactor |-> MathAbs(minX) \div ROUTING_SCALING_FACTOR + 1,
           height |-> MathCeil(MathAbs(minY) + maxY),
           vAdjustmentFactor |-> MathAbs(minY) \div ROUTING_SCALING_FACTOR + 1]

\* ---------------------------------------------------------------- the factory object

\* The factory's fields and the heap as one value t that the methods below
\* take and return; threw, ret, canvasCalcs and routingCalcs describe the
\* call in progress: whether it threw, what it returned, and how many times
\* calculateCanvasMatrix / calculateRoutingMatrix ran to completion in it.
This ==
    [heap |-> heap,
     canvasMatrix |-> canvasMatrix,
     routingMatrix |-> routingMatrix,
     hAdjustmentFactor |-> hAdjustmentFactor,
     vAdjustmentFactor |-> vAdjustmentFactor,
     canvasEpoch |-> canvasEpoch,
     routingEpoch |-> routingEpoch,
     threw |-> FALSE,
     ret |-> 0,
     canvasCalcs |-> 0,
     routingCalcs |-> 0]

\* A reference no live object has.
newRef(h) ==
    CHOOSE r \in 1..(Cardinality(DOMAIN h) + 1) :
        r \notin DOMAIN h /\ \A q \in 1..(r - 1) : q \in DOMAIN h

\* A new array object holding value v; its reference is returned in ret.
newArray(t, v) ==
    [t EXCEPT !.heap = [q \in DOMAIN t.heap \cup {newRef(t.heap)} |->
                          IF q \in DOMAIN t.heap THEN t.heap[q] ELSE v],
              !.ret = newRef(t.heap)]

\* No copy: the matrix itself is handed back.
cloneDeepAlias(t, ref) == [t EXCEPT !.ret = ref]

\* _.cloneDeep(matrix): a new object with a copy of every row.
cloneDeep(t, ref) == newArray(t, t.heap[ref])

\* The matrix with rows and columns exchanged.
zeroMatrixTransposed(matrixHeight, matrixWidth) ==
    [r \in 1..matrixWidth |-> [c \in 1..matrixHeight |-> 0]]

\* _.range(0, matrixHeight).map(() => new Array(matrixWidth).fill(0))
zeroMatrix(matrixHeight, matrixWidth) ==
    [r \in 1..matrixHeight |-> [c \in 1..matrixWidth |-> 0]]

\* calculateCanvasMatrix from line 62 on, d being what calculateMatrixDimensions
\* returned: the factors are assigned, then a new matrix of zeros.
setCanvasMatrix(t, d) ==
    [newArray(t, zeroMatrix(MathCeilDiv(d.height, ROUTING_SCALING_FACTOR),
                            MathCeilDiv(d.width, ROUTING_SCALING_FACTOR)))
        EXCEPT !.hAdjustmentFactor = d.hAdjustmentFactor,
               !.vAdjustmentFactor = d.vAdjustmentFactor,
               !.canvasMatrix = newRef(t.heap),
               !.canvasEpoch = epoch,
               !.canvasCalcs = @ + 1,
               !.ret = 0]

calculateCanvasMatrixWith(t, d) ==
    IF d.threw THEN [t EXCEPT !.threw = TRUE] ELSE setCanvasMatrix(t, d)

calculateCanvasMatrix(t) == calculateCanvasMatrixWith(t, calculateMatrixDimensions)

\* return this.canvasMatrix, unless the calculation threw
returnCanvasMatrix(t) == IF t.threw THEN t ELSE [t EXCEPT !.ret = t.canvasMatrix]

getCanvasMatrix(t) ==
    returnCanvasMatrix(IF Len(t.heap[t.canvasMatrix]) = 0 THEN calculateCanvasMatrix(t) ELSE t)

translateRoutingX(t, x, reverse) == x + t.hAdjustmentFactor * (IF reverse THEN -1 ELSE 1)
translateRoutingY(t, y, reverse) == y + t.vAdjustmentFactor * (IF reverse THEN -1 ELSE 1)

\* The value of an array element that was never assigned.
Undefined == [isUndefined |-> TRUE]

\* v === undefined, for v a number or Undefined (the two are values of
\* different kinds, so they are told apart by their printed form).
isUndefined(v) == ToString(v) = ToString(Undefined)

\* The guard with the test of the row alone.
isMatrixPointRowOnly(m, x, y) ==
    /\ y >= 0 /\ y < Len(m)

\* The guard of markMatrixPoint, for integers x and y:
\* matrix[y] !== undefined && matrix[y][x] !== undefined
\* matrix[y] is undefined for an index outside the array; matrix[y][x] is
\* undefined for an index outside the row and for an element of the row that
\* was never assigned.
isMatrixPoint(m, x, y) ==
    /\ y >= 0 /\ y < Len(m)
    /\ x >= 0 /\ x < Len(m[y + 1])
    /\ ~isUndefined(m[y + 1][x + 1])

\* row[x] = 1 on a JavaScript array: an index from the length on makes the
\* array longer (the elements between are holes), a negative index adds a
\* property and no element.
rowAssign(row, x) ==
    IF x >= 0 /\ x < Len(row) THEN [row EXCEPT ![x + 1] = 1]
    ELSE IF x >= Len(row) THEN row \o [i \in 1..(x - Len(row)) |-> Undefined] \o <<1>>
    ELSE row

\* markMatrixPoint(matrix, x, y), one call
markMatrixPoint(t, matrix, x, y) ==
    IF isMatrixPoint(t.heap[matrix], x, y)
    THEN [t EXCEPT !.heap[matrix][y + 1] = rowAssign(@, x)]
    ELSE t

\* markMatrixPoint for every (x, y) of the set points: a write sets one cell
\* to 1 and nothing else, so the writes of a loop commute and the matrix
\* after the loop has a 1 exactly where it had one or a write went.
markMatrixPoints(t, matrix, points) ==
    LET m == t.heap[matrix]
    IN  [t EXCEPT !.heap[matrix] =
            [r \in 1..Len(m) |->
                [c \in 1..Len(m[r]) |->
                    IF <<c - 1, r - 1>> \in points /\ isMatrixPoint(m, c - 1, r - 1)
                    THEN 1
                    ELSE m[r][c]]]]

\* The (x, y) the two loops of markNodes pass to markMatrixPoint for one node:
\* for (x = startX - 1; x <= endX + 1; x++) for (y = startY - 1; y < endY + 1; y++)
nodePoints(t, node) ==
    LET startX == MathFloorDiv(node.x, ROUTING_SCALING_FACTOR)
        endX == MathCeilDiv(node.x + node.width, ROUTING_SCALING_FACTOR)
        startY == MathFloorDiv(node.y, ROUTING_SCALING_FACTOR)
        endY == MathCeilDiv(node.y + node.height, ROUTING_SCALING_FACTOR)
    IN  { <<translateRoutingX(t, x, FALSE), translateRoutingY(t, y, FALSE)>> :
            x \in { x \in (startX - 1)..(endX + 1) : x <= endX + 1 },
            y \in { y \in (startY - 1)..(endY + 1) : y < endY + 1 } }

markNodes(t, matrix) ==
    markMatrixPoints(t, matrix, UNION { nodePoints(t, nodes[i]) : i \in 1..Len(nodes) })

\* The (x, y) the two loops of markPorts pass to markMatrixPoint for one port:
\* for (x = startX - 1; x <= endX + 1; x++) for (y = startY - 1; y < endY + 1; y++)
portPoints(t, port) ==
    LET startX == MathFloorDiv(port.x, ROUTING_SCALING_FACTOR)
        endX == MathCeilDiv(port.x + port.width, ROUTING_SCALING_FACTOR)
        startY == MathFloorDiv(port.y, ROUTING_SCALING_FACTOR)
        endY == MathCeilDiv(port.y + port.height, ROUTING_SCALING_FACTOR)
    IN  { <<translateRoutingX(t, x, FALSE), translateRoutingY(t, y, FALSE)>> :
            x \in { x \in (startX - 1)..(endX + 1) : x <= endX + 1 },
            y \in { y \in (startY - 1)..(endY + 1) : y < endY + 1 } }

\* markPorts that marks the waypoints of the links as well.
markPortsAndPoints(t, matrix) ==
    LET allElements == SelectSeq(linkPorts, isPort) \o allPointsCoords
    IN  markMatrixPoints(t, matrix,
            UNION { portPoints(t, allElements[i]) : i \in 1..Len(allElements) })

markPorts(t, matrix) ==
    LET allElements == SelectSeq(linkPorts, isPort)
    IN  markMatrixPoints(t, matrix,
            UNION { portPoints(t, allElements[i]) : i \in 1..Len(allElements) })

\* calculateRoutingMatrix after the clone: t.ret is the local variable matrix.
markAndSetRoutingMatrix(t) ==
    [markPorts(markNodes(t, t.ret), t.ret)
        EXCEPT !.routingMatrix = t.ret,
               !.routingEpoch = epoch,
               !.routingCalcs = @ + 1,
               !.ret = 0]

\* calculateRoutingMatrix after this.getCanvasMatrix() ended in t
cloneAndMark(t) ==
    IF t.threw THEN t ELSE markAndSetRoutingMatrix(cloneDeep(t, t.ret))

calculateRoutingMatrix(t) == cloneAndMark(getCanvasMatrix(t))

\* return this.routingMatrix, unless the calculation threw
returnRoutingMatrix(t) == IF t.threw THEN t ELSE [t EXCEPT !.ret = t.routingMatrix]

\* getRoutingMatrix that calculates at every call.
getRoutingMatrixEager(t) == returnRoutingMatrix(calculateRoutingMatrix(t))

getRoutingMatrix(t) ==
    returnRoutingMatrix(IF Len(t.heap[t.routingMatrix]) = 0 THEN calculateRoutingMatrix(t) ELSE t)

\* Invalidation of the cache: both matrices are cleared together.
clearRoutingMatrix(t) ==
    [t EXCEPT !.routingMatrix = t.ret, !.canvasEpoch = -1, !.routingEpoch = -1, !.ret = 0]

clearCanvasMatrix(t) == [t EXCEPT !.canvasMatrix = t.ret]

invalidate(t) == clearRoutingMatrix(newArray(clearCanvasMatrix(newArray(t, <<>>)), <<>>))

\* ---------------------------------------------------------------- generateDynamicPath

\* Path() of paths-js: a path is the sequence of its instructions; moveto
\* and lineto return the path with one instruction more.
Path == <<>>
moveto(path, x, y) == Append(path, [command |-> "M", params |-> <<x, y>>])
lineto(path, x, y) == Append(path, [command |-> "L", params |-> <<x, y>>])

\* path.print(): every instruction as its command and its parameters, all
\* joined by blanks; the string is kept as the sequence of its words.
print(path) ==
    flatten([i \in 1..Len(path) |-> <<path[i].command>> \o path[i].params])

\* pathCoords.slice(1).forEach(coords => path = path.lineto(...)), from the
\* i-th element of pathCoords on
RECURSIVE linetoEach(_, _, _)
linetoEach(path, pathCoords, i) ==
    IF i > Len(pathCoords)
    THEN path
    ELSE linetoEach(lineto(path, pathCoords[i][1] * ROUTING_SCALING_FACTOR,
                                 pathCoords[i][2] * ROUTING_SCALING_FACTOR),
                    pathCoords, i + 1)

\* generateDynamicPath that emits the empty path for no points.
generateDynamicPathLenient(pathCoords) ==
    IF pathCoords = <<>>
    THEN [threw |-> FALSE, ret |-> print(Path)]
    ELSE [threw |-> FALSE,
          ret |-> print(linetoEach(moveto(Path, pathCoords[1][1] * ROUTING_SCALING_FACTOR,
                                                pathCoords[1][2] * ROUTING_SCALING_FACTOR),
                                   pathCoords, 2))]

\* generateDynamicPath that leaves out a point equal to the one before it.
generateDynamicPathDistinct(pathCoords) ==
    IF pathCoords = <<>>
    THEN [threw |-> TRUE, ret |-> Undefined]
    ELSE [threw |-> FALSE,
          ret |-> print(linetoEach(moveto(Path, pathCoords[1][1] * ROUTING_SCALING_FACTOR,
                                                pathCoords[1][2] * ROUTING_SCALING_FACTOR),
                                   SelectSeq([i \in 1..Len(pathCoords) |->
                                                 IF i > 1 /\ pathCoords[i] = pathCoords[i - 1]
                                                 THEN Undefined ELSE pathCoords[i]],
                                             LAMBDA c : c # Undefined),
                                   2))]

\* generateDynamicPath(pathCoords): pathCoords[0][0] of an empty array reads
\* a property of undefined and throws a TypeError before anything is emitted.
generateDynamicPath(pathCoords) ==
    IF pathCoords = <<>>
    THEN [threw |-> TRUE, ret |-> Undefined]
    ELSE [threw |-> FALSE,
          ret |-> print(linetoEach(moveto(Path, pathCoords[1][1] * ROUTING_SCALING_FACTOR,
                                                pathCoords[1][2] * ROUTING_SCALING_FACTOR),
                                   pathCoords, 2))]

\* ---------------------------------------------------------------- Numbers

\* translateRoutingX and translateRoutingY take any Number.  A Number that
\* need not be an integer is kept as an IEEE 754 double: its sign and the
\* set of the exponents e of the powers 2^e that add up to its magnitude (at
\* most 53 binary digits from the first to the last).  Exponent overflow and
\* subnormals are out of the range of the values used.
Number(neg, bits) == [neg |-> neg, bits |-> bits]

\* The Number of an integer n, |n| < 2^31
numberFromInt(n) ==
    Number(n < 0, { e \in 0..30 : (MathAbs(n) \div (2 ^ e)) % 2 = 1 })

\* a * (reverse ? -1 : 1) for an integer a: exact, and 0 * -1 is -0.
timesSign(a, reverse) ==
    Number((a < 0) # reverse, numberFromInt(a).bits)

\* Exact binary addition of two magnitudes: the sum without carries, plus
\* the carries one place up.
RECURSIVE bitsAdd(_, _)
bitsAdd(A, B) ==
    IF B = {} THEN A ELSE bitsAdd((A \ B) \cup (B \ A), { e + 1 : e \in A \cap B })

\* Exact binary subtraction A - B of two magnitudes, A >= B.
RECURSIVE bitsSub(_, _)
bitsSub(A, B) ==
    IF B = {} THEN A ELSE bitsSub((A \ B) \cup (B \ A), { e + 1 : e \in B \ A })

bitsLess(A, B) ==
    /\ A # B
    /\ (CHOOSE e \in (A \ B) \cup (B \ A) : \A f \in (A \ B) \cup (B \ A) : f <= e) \in B

\* Rounding of an exact magnitude to 53 binary digits, to nearest, ties to even.
roundBits(S) ==
    IF S = {}
    THEN S
    ELSE
      LET top == CHOOSE e \in S : \A f \in S : f <= e
          kept == { e \in S : e >= top - 52 }
          rest == S \ kept
      IN  IF (top - 53) \notin rest THEN kept
          ELSE IF rest = {top - 53} /\ (top - 52) \notin kept THEN kept
          ELSE bitsAdd(kept, {top - 52})

\* a + b on Numbers
numberAdd(a, b) ==
    IF a.neg = b.neg THEN Number(a.neg, roundBits(bitsAdd(a.bits, b.bits)))
    ELSE IF a.bits = b.bits THEN Number(FALSE, {})
    ELSE IF bitsLess(a.bits, b.bits) THEN Number(b.neg, roundBits(bitsSub(b.bits, a.bits)))
    ELSE Number(a.neg, roundBits(bitsSub(a.bits, b.bits)))

\* translateRoutingX that always adds the factor.
translateRoutingXNumberForward(t, x, reverse) ==
    numberAdd(x, timesSign(t.hAdjustmentFactor, FALSE))

\* translateRoutingX / translateRoutingY for a Number x that need not be an integer
translateRoutingXNumber(t, x, reverse) ==
    numberAdd(x, timesSign(t.hAdjustmentFactor, reverse))
translateRoutingYNumber(t, y, reverse) ==
    numberAdd(y, timesSign(t.vAdjustmentFactor, reverse))

\* 0.1, the double 0x1.999999999999ap-4
Tenth ==
    Number(FALSE, {-4} \cup UNION { {-4 * i - 1, -4 * i - 4} : i \in 1..12 } \cup {-53, -55})

\* The values the translation is called with: grid indices and other Numbers.
Numbers ==
    { numberFromInt(n) : n \in {0, 1, 7, -3, 31, -41} }
        \cup { Number(FALSE, {-1}),           \* 0.5
               Number(TRUE, {1, -1}),         \* -2.5
               Tenth,                         \* 0.1
               Number(TRUE, Tenth.bits),      \* -0.1
               Number(FALSE, {-60}),          \* 2^-60
               Number(FALSE, {53}),           \* 2^53
               Number(FALSE, 0..52) }         \* 2^53 - 1

\* ---------------------------------------------------------------- MoveItemsState

\* The value of initialPositions: not assigned (undefined), or an object
\* with a Point for some IDs.
NotAssigned == [assigned |-> FALSE, entries |-> <<>>]
Positions(entries) == [assigned |-> TRUE, entries |-> entries]

\* The state after new MoveItemsState(), its for the items of the model:
\* initialPositions is declared and not assigned. shared says which
\* BasePositionModel the items are of (see getPosition).
MoveItemsStateConstructed(its, shared) ==
    /\ items = its
    /\ positionsShared = shared
    /\ moveEvents = 0
    /\ initialPositions = NotAssigned
    /\ lastEvent = [op |-> "new", threw |-> FALSE]
    /\ activations = 0
    /\ moveStart = <<>>

\* An item of the model: a BasePositionModel (positioned) or another model,
\* at position, locked or not, selected or not.
Item(position, positioned, locked, selected) ==
    [position |-> position, positioned |-> positioned, locked |-> locked, selected |-> selected]

\* The items fireMouseMoved moves: selected (getSelectedItems), instanceof
\* BasePositionModel, not isLocked().
isMoved(item) == item.selected /\ item.positioned /\ ~item.locked

\* item.getPosition() of line 42 and item.setPosition(x, y) of line 45.
\* BasePositionModel is not among the sources, and fireMouseMoved keeps the
\* object getPosition returns (line 42), so what it holds afterwards depends
\* on the BasePositionModel in use:
\*   positionsShared = FALSE: setPosition puts a new Point in the item (or
\*     getPosition returns a copy), and a kept object keeps its value;
\*   positionsShared = TRUE: getPosition returns the item's own Point and
\*     setPosition writes x and y into it, so a kept object changes with it.
\* Either way the item is at (x, y) after setPosition(x, y).
getPosition(item) == item.position
setPosition(item, x, y) == [item EXCEPT !.position = Point(x, y)]

\* fireMouseMoved that moves an item from where it is.
movedItemFromCurrent(item, initial, event) ==
    setPosition(item, getPosition(item).x + event.virtualDisplacementX,
                      getPosition(item).y + event.virtualDisplacementY)

\* Lines 45-46 for one item: pos is the recorded initial position (initial)
movedItem(item, initial, event) ==
    setPosition(item, initial.x + event.virtualDisplacementX,
                      initial.y + event.virtualDisplacementY)

\* Lines 41-43 for all moved items: the positions recorded after the loop
recordedPositions(its, recorded) ==
    [id \in DOMAIN recorded \cup { i \in DOMAIN its : isMoved(its[i]) } |->
        IF id \in DOMAIN recorded THEN recorded[id] ELSE getPosition(its[id])]

\* The objects kept in initialPositions after the loop has moved the items:
\* the object of a moved item is the one setPosition was called on, so with
\* shared positions it holds the item's new position.
keptPositions(its, recorded, event) ==
    [id \in DOMAIN recorded |->
        IF positionsShared /\ isMoved(its[id])
        THEN getPosition(movedItem(its[id], recorded[id], event))
        ELSE recorded[id]]

\* fireMouseMoved(event): what it leaves in items and initialPositions.
\* Reading this.initialPositions[id] while initialPositions is undefined
\* throws a TypeError, at the first item to move.
fireMouseMoved(event) ==
    IF \A i \in DOMAIN items : ~isMoved(items[i])
    THEN [threw |-> FALSE, items |-> items, initialPositions |-> initialPositions]
    ELSE IF ~initialPositions.assigned
    THEN [threw |-> TRUE, items |-> items, initialPositions |-> initialPositions]
    ELSE [threw |-> FALSE,
          items |-> [i \in DOMAIN items |->
                        IF isMoved(items[i])
                        THEN movedItem(items[i],
                                       recordedPositions(items, initialPositions.entries)[i], event)
                        ELSE items[i]],
          initialPositions |->
              Positions(keptPositions(items,
                                      recordedPositions(items, initialPositions.entries),
                                      event))]

\* ---------------------------------------------------------------- state machine

NoCall == [op |-> "new", threw |-> FALSE, ret |-> 0, canvasCalcs |-> 0, routingCalcs |-> 0]

\* The factory after construction, for a diagram model and canvas g.
Constructed(g) ==
    /\ nodes = g[1]
    /\ links = g[2]
    /\ offsetWidth = g[3]
    /\ offsetHeight = g[4]
    /\ heap = [r \in {1, 2} |-> <<>>]
    /\ canvasMatrix = 1
    /\ routingMatrix = 2
    /\ hAdjustmentFactor = 0
    /\ vAdjustmentFactor = 0
    /\ lastCall = NoCall
    /\ epoch = 0
    /\ canvasEpoch = -1
    /\ routingEpoch = -1
    /\ MoveItemsStateConstructed(<<>>, FALSE)

\* The call op has ended in t: the fields take their values from t, the
\* objects nothing refers to any more are collected.
Return(op, t) ==
    /\ heap' = [r \in {t.canvasMatrix, t.routingMatrix} |-> t.heap[r]]
    /\ canvasMatrix' = t.canvasMatrix
    /\ routingMatrix' = t.routingMatrix
    /\ hAdjustmentFactor' = t.hAdjustmentFactor
    /\ vAdjustmentFactor' = t.vAdjustmentFactor
    /\ canvasEpoch' = t.canvasEpoch
    /\ routingEpoch' = t.routingEpoch
    /\ lastCall' = [op |-> op, threw |-> t.threw, ret |-> t.ret,
                    canvasCalcs |-> t.canvasCalcs, routingCalcs |-> t.routingCalcs]
    /\ UNCHANGED <<nodes, links, offsetWidth, offsetHeight, epoch>>
    /\ UNCHANGED moveVars

GetCanvasMatrix ==
    /\ Return("getCanvasMatrix", getCanvasMatrix(This))

CalculateCanvasMatrix ==
    /\ Return("calculateCanvasMatrix", calculateCanvasMatrix(This))

GetRoutingMatrix ==
    /\ Return("getRoutingMatrix", getRoutingMatrix(This))

CalculateRoutingMatrix ==
    /\ Return("calculateRoutingMatrix", calculateRoutingMatrix(This))

Invalidate ==
    /\ Return("invalidate", invalidate(This))

\* The scenario layout: viewport 800 x 600, one node at (100, 100) of size (50, 50).
Scenario == << <<Box(100, 100, 50, 50)>>, <<>>, 800, 600 >>

\* A layout with a node at negative coordinates: (-200, -200) of size (50, 50).
NegativeScenario == << <<Box(-200, -200, 50, 50)>>, <<>>, 20, 15 >>

\* A layout with a link waypoint at (12, 3), inside the viewport and away
\* from the only node.
WaypointScenario == << <<Box(0, 0, 0, 0)>>, <<Link(Null, Null, <<Point(12, 3)>>)>>, 20, 15 >>

Geometries ==
    { <<n, l, v[1], v[2]>> : n \in SeqsUpTo(NodeBoxes, MaxNodes),
                             l \in SeqsUpTo(LinkSet, MaxLinks),
                             v \in Viewports }

\* The layouts the diagram changes between.
Layouts ==
    { << <<>>, <<>>, 20, 15 >>,
      << <<Box(0, 0, 0, 0)>>, <<>>, 0, 0 >>,
      << <<Box(0, 0, 5, 5)>>, <<>>, 20, 15 >>,
      << <<Box(-7, -3, 5, 4)>>, <<Link(Box(3, 3, 2, 2), Null, <<Point(21, 4)>>)>>, 20, 15 >>,
      << <<Box(10, 5, 10, 10)>>, <<>>, 12, 9 >>,
      << <<Box(8, 2, 7, 3)>>, <<Link(Null, Box(-2, 11, 3, 3), <<>>)>>, 12, 9 >> }

\* The diagram or the canvas changed (a node moved or resized, a port, a
\* waypoint or the viewport changed).
SetGeometry ==
    /\ epoch < MaxChanges
    /\ \E g \in Layouts :
         /\ g # geometry
         /\ nodes' = g[1]
         /\ links' = g[2]
         /\ offsetWidth' = g[3]
         /\ offsetHeight' = g[4]
    /\ epoch' = epoch + 1
    /\ lastCall' = [NoCall EXCEPT !.op = "setGeometry"]
    /\ UNCHANGED <<heap, canvasMatrix, routingMatrix, hAdjustmentFactor, vAdjustmentFactor,
                   canvasEpoch, routingEpoch>>
    /\ UNCHANGED moveVars

Init == \E g \in Layouts : Constructed(g)

Next ==
    \/ GetCanvasMatrix
    \/ CalculateCanvasMatrix
    \/ GetRoutingMatrix
    \/ CalculateRoutingMatrix
    \/ Invalidate
    \/ SetGeometry

Spec == Init /\ [][Next]_vars

\* The same factory over every diagram of the input sets, the diagram fixed.
InitFn == \E g \in Geometries \cup {Scenario, NegativeScenario, WaypointScenario} : Constructed(g)

NextFn ==
    \/ GetCanvasMatrix
    \/ CalculateCanvasMatrix
    \/ GetRoutingMatrix
    \/ CalculateRoutingMatrix
    \/ Invalidate

SpecFn == InitFn /\ [][NextFn]_vars

\* A call of translateRoutingX / translateRoutingY by a collaborator (the
\* pathfinder), with any of the Numbers; nothing of the factory changes.
TranslateRoutingX ==
    /\ \E x \in Numbers, reverse \in BOOLEAN :
          lastCall' = [op |-> "translateRoutingX", threw |-> FALSE,
                       ret |-> translateRoutingXNumber(This, x, reverse),
                       canvasCalcs |-> 0, routingCalcs |-> 0,
                       x |-> x, reverse |-> reverse]
    /\ UNCHANGED <<nodes, links, offsetWidth, offsetHeight, heap, canvasMatrix, routingMatrix,
                   hAdjustmentFactor, vAdjustmentFactor, epoch, canvasEpoch, routingEpoch>>
    /\ UNCHANGED moveVars

TranslateRoutingY ==
    /\ \E y \in Numbers, reverse \in BOOLEAN :
          lastCall' = [op |-> "translateRoutingY", threw |-> FALSE,
                       ret |-> translateRoutingYNumber(This, y, reverse),
                       canvasCalcs |-> 0, routingCalcs |-> 0,
                       x |-> y, reverse |-> reverse]
    /\ UNCHANGED <<nodes, links, offsetWidth, offsetHeight, heap, canvasMatrix, routingMatrix,
                   hAdjustmentFactor, vAdjustmentFactor, epoch, canvasEpoch, routingEpoch>>
    /\ UNCHANGED moveVars

\* The factory and the collaborator that translates coordinates with it.
InitTranslate == \E g \in Layouts \cup {NegativeScenario} : Constructed(g)

NextTranslate ==
    \/ GetRoutingMatrix
    \/ TranslateRoutingX
    \/ TranslateRoutingY

SpecTranslate == InitTranslate /\ [][NextTranslate]_vars

\* The indices markMatrixPoint is called with, inside and outside the matrices.
MarkXs == {-1, 0, 3, 4, 7}
MarkYs == {-1, 0, 2, 3, 4}

\* A call of markMatrixPoint on the routing matrix the factory holds.
MarkMatrixPoint ==
    /\ \E x \in MarkXs, y \in MarkYs :
          /\ heap' = markMatrixPoint(This, routingMatrix, x, y).heap
          /\ lastCall' = [op |-> "markMatrixPoint", threw |-> FALSE, ret |-> 0,
                          canvasCalcs |-> 0, routingCalcs |-> 0, x |-> x, y |-> y]
    /\ UNCHANGED <<nodes, links, offsetWidth, offsetHeight, canvasMatrix, routingMatrix,
                   hAdjustmentFactor, vAdjustmentFactor, epoch, canvasEpoch, routingEpoch>>
    /\ UNCHANGED moveVars

\* The factory, rasterizing and marking single points.
InitMark == \E g \in Layouts : Constructed(g)

NextMark ==
    \/ GetRoutingMatrix
    \/ CalculateRoutingMatrix
    \/ MarkMatrixPoint

SpecMark == InitMark /\ [][NextMark]_vars

\* The grid points a pathfinder returns, and the sequences of them.
GridPoints == { <<0, 0>>, <<2, 3>>, <<7, 1>> }
PathCoords == SeqsUpTo(GridPoints, MaxPath)

\* A call of generateDynamicPath with the points of a found path.
GenerateDynamicPath ==
    /\ \E pathCoords \in PathCoords :
          lastCall' = [op |-> "generateDynamicPath",
                       threw |-> generateDynamicPath(pathCoords).threw,
                       ret |-> generateDynamicPath(pathCoords).ret,
                       canvasCalcs |-> 0, routingCalcs |-> 0,
                       pathCoords |-> pathCoords]
    /\ UNCHANGED <<nodes, links, offsetWidth, offsetHeight, heap, canvasMatrix, routingMatrix,
                   hAdjustmentFactor, vAdjustmentFactor, epoch, canvasEpoch, routingEpoch>>
    /\ UNCHANGED moveVars

\* The factory emitting paths.
InitPath == \E g \in Layouts : Constructed(g)

NextPath ==
    \/ GetRoutingMatrix
    \/ GenerateDynamicPath

SpecPath == InitPath /\ [][NextPath]_vars

\* The items of a model: item i lies at (10 * i, 5 * i); it is a positioned
\* model (locked or not) or another model, selected or not.
ItemSets ==
    UNION { [1..n -> { Item(Point(0, 0), TRUE, locked, selected) :
                         locked \in BOOLEAN, selected \in BOOLEAN }
                       \cup { Item(Point(0, 0), FALSE, FALSE, selected) : selected \in BOOLEAN }]
            : n \in 1..MaxItems }

placed(its) == [i \in DOMAIN its |-> setPosition(its[i], 10 * i, 5 * i)]

\* The displacements of the mouse from where the drag began.
Displacements == { <<0, 0>>, <<3, -2>>, <<-4, 1>> }

\* activated(previous): the state becomes the active one.
Activated ==
    /\ activations < MaxActivations
    /\ activations' = activations + 1
    /\ initialPositions' = Positions(<<>>)
    /\ moveStart' = <<>>
    /\ moveEvents' = 0
    /\ lastEvent' = [op |-> "activated", threw |-> FALSE]
    /\ UNCHANGED <<items, positionsShared>>
    /\ UNCHANGED factoryVars

\* The MOUSE_DOWN action on the item element.
MouseDown ==
    /\ \E element \in DOMAIN items :
          items' = IF ~items[element].selected
                   THEN [i \in DOMAIN items |-> [items[i] EXCEPT !.selected = (i = element)]]
                   ELSE items
    /\ lastEvent' = [op |-> "mouseDown", threw |-> FALSE]
    /\ UNCHANGED <<initialPositions, activations, moveStart, moveEvents, positionsShared>>
    /\ UNCHANGED factoryVars

\* A mouse-move event with a virtual displacement.
FireMouseMoved ==
    /\ moveEvents < MaxMoves
    /\ \E d \in Displacements :
          /\ items' = fireMouseMoved([virtualDisplacementX |-> d[1],
                                      virtualDisplacementY |-> d[2]]).items
          /\ initialPositions' = fireMouseMoved([virtualDisplacementX |-> d[1],
                                                 virtualDisplacementY |-> d[2]]).initialPositions
          /\ lastEvent' = [op |-> "fireMouseMoved",
                           threw |-> fireMouseMoved([virtualDisplacementX |-> d[1],
                                                     virtualDisplacementY |-> d[2]]).threw,
                           virtualDisplacementX |-> d[1], virtualDisplacementY |-> d[2]]
    /\ moveStart' = IF ~initialPositions.assigned
                    THEN moveStart
                    ELSE [id \in DOMAIN moveStart \cup { i \in DOMAIN items : isMoved(items[i]) } |->
                            IF id \in DOMAIN moveStart THEN moveStart[id] ELSE items[id].position]
    /\ moveEvents' = moveEvents + 1
    /\ UNCHANGED <<activations, positionsShared>>
    /\ UNCHANGED factoryVars

\* MoveItemsState over the models of the input sets, with either
\* BasePositionModel; no factory call is made.
InitMove ==
    /\ \E its \in ItemSets, shared \in BOOLEAN : MoveItemsStateConstructed(placed(its), shared)
    /\ nodes = <<>> /\ links = <<>> /\ offsetWidth = 0 /\ offsetHeight = 0
    /\ heap = [r \in {1, 2} |-> <<>>]
    /\ canvasMatrix = 1 /\ routingMatrix = 2
    /\ hAdjustmentFactor = 0 /\ vAdjustmentFactor = 0
    /\ lastCall = NoCall
    /\ epoch = 0 /\ canvasEpoch = -1 /\ routingEpoch = -1

NextMove ==
    \/ Activated
    \/ MouseDown
    \/ FireMouseMoved

SpecMove == InitMove /\ [][NextMove]_vars

\* ---------------------------------------------------------------- properties

C == heap[canvasMatrix]
R == heap[routingMatrix]

columnsOf(m) == IF Len(m) = 0 THEN 0 ELSE Len(m[1])

\* The boxes of the diagram: nodes, non-null ports, waypoints (as boxes of size 0).
obstacleBoxes ==
    { nodes[i] : i \in 1..Len(nodes) }
        \cup { p \in { linkPorts[i] : i \in 1..Len(linkPorts) } : p # Null }
allBoxes ==
    obstacleBoxes
        \cup { Box(p.x, p.y, 0, 0) :
                 p \in UNION { { links[i].points[j] : j \in 1..Len(links[i].points) } :
                               i \in 1..Len(links) } }

SetMin(S) == CHOOSE v \in S : \A w \in S : v <= w
SetMax(S) == CHOOSE v \in S : \A w \in S : v >= w

\* The routing matrix was calculated by the last call, from the present diagram.
Rasterized == ~lastCall.threw /\ lastCall.routingCalcs = 1
\* The canvas matrix and the factors were calculated by the last call.
Dimensioned == ~lastCall.threw /\ lastCall.canvasCalcs = 1

\* C1: after rasterization, every cell of the padded rectangle of every node
\* and non-null port (columns floor(x/s)-1 .. ceil((x+w)/s)+1 and rows
\* floor(y/s)-1 .. ceil((y+h)/s)+1, both inclusive), translated by the
\* adjustment factors, is 1 in the routing matrix if it lies inside the matrix.
C1_PaddedBoxesBlocked ==
    Rasterized =>
        \A b \in obstacleBoxes :
            \A col \in (MathFloorDiv(b.x, ROUTING_SCALING_FACTOR) - 1)
                         ..(MathCeilDiv(b.x + b.width, ROUTING_SCALING_FACTOR) + 1) :
                \A row \in (MathFloorDiv(b.y, ROUTING_SCALING_FACTOR) - 1)
                             ..(MathCeilDiv(b.y + b.height, ROUTING_SCALING_FACTOR) + 1) :
                    isMatrixPoint(R, translateRoutingX(This, col, FALSE),
                                     translateRoutingY(This, row, FALSE))
                        => R[translateRoutingY(This, row, FALSE) + 1]
                            [translateRoutingX(This, col, FALSE) + 1] = 1

\* C2: with no nodes and no links the matrix calls succeed, with dimensions
\* taken from the viewport alone and minimum coordinates 0.
C2_EmptyGeometrySucceeds ==
    (/\ nodes = <<>>
     /\ links = <<>>
     /\ lastCall.op \in {"getCanvasMatrix", "getRoutingMatrix",
                         "calculateCanvasMatrix", "calculateRoutingMatrix"})
        => /\ ~lastCall.threw
           /\ Len(C) = MathCeilDiv(offsetHeight, ROUTING_SCALING_FACTOR)
           /\ columnsOf(C) = MathCeilDiv(offsetWidth, ROUTING_SCALING_FACTOR)

\* C3: a getRoutingMatrix call right after a getRoutingMatrix call returns
\* the same matrix object with the same cells and recalculates nothing; the
\* getRoutingMatrix call right after an invalidation recalculates once.
C3_CacheCoherence ==
    [][ /\ (/\ lastCall.op = "getRoutingMatrix"
            /\ ~lastCall.threw
            /\ lastCall'.op = "getRoutingMatrix")
           => /\ ~lastCall'.threw
              /\ lastCall'.ret = lastCall.ret
              /\ heap'[lastCall'.ret] = heap[lastCall.ret]
              /\ lastCall'.routingCalcs = 0
        /\ (/\ lastCall.op = "invalidate"
            /\ lastCall'.op = "getRoutingMatrix"
            /\ ~lastCall'.threw)
           => lastCall'.routingCalcs = 1 ]_vars

\* The grid cells a box overlaps on one axis, from v to v + size.
coveredCells(v, size) ==
    MathFloorDiv(v, ROUTING_SCALING_FACTOR)
        ..MathMax(MathFloorDiv(v, ROUTING_SCALING_FACTOR),
                  MathCeilDiv(v + size, ROUTING_SCALING_FACTOR) - 1)

\* C4: the calculated canvas matrix contains every cell that a node, port or
\* waypoint box or the viewport covers, after translation by the factors.
C4_GridContainsGeometry ==
    Dimensioned =>
        \A b \in allBoxes \cup { Box(0, 0, offsetWidth, offsetHeight) } :
            /\ \A col \in coveredCells(b.x, b.width) :
                   translateRoutingX(This, col, FALSE) < columnsOf(C)
            /\ \A row \in coveredCells(b.y, b.height) :
                   translateRoutingY(This, row, FALSE) < Len(C)

\* C5: in the scenario layout the canvas matrix has 120 rows of 160 columns
\* and the routing matrix has a 1 exactly in the cells of grid columns 19..31
\* and grid rows 19..31 (grid coordinates before translation).
C5_Scenario ==
    (geometry = Scenario /\ Rasterized) =>
        /\ Len(C) = 120
        /\ \A r \in 1..Len(C) : Len(C[r]) = 160
        /\ \A r \in 1..Len(R) : \A c \in 1..Len(R[r]) :
              R[r][c] = 1 <=> /\ translateRoutingX(This, c - 1, TRUE) \in 19..31
                              /\ translateRoutingY(This, r - 1, TRUE) \in 19..31

\* C6: the adjustment factors are never negative, and when they have just
\* been calculated, the grid index of every node, port and waypoint, and of
\* its padded start one cell before, is translated to an index >= 0.
C6_NoNegativeIndex ==
    /\ hAdjustmentFactor \in Nat
    /\ vAdjustmentFactor \in Nat
    /\ Dimensioned =>
        \A b \in allBoxes :
            /\ translateRoutingX(This, MathFloorDiv(b.x, ROUTING_SCALING_FACTOR), FALSE) >= 0
            /\ translateRoutingX(This, MathFloorDiv(b.x, ROUTING_SCALING_FACTOR) - 1, FALSE) >= 0
            /\ translateRoutingY(This, MathFloorDiv(b.y, ROUTING_SCALING_FACTOR), FALSE) >= 0
            /\ translateRoutingY(This, MathFloorDiv(b.y, ROUTING_SCALING_FACTOR) - 1, FALSE) >= 0

\* The factors were calculated for a diagram with a node at (-200, -200).
C6_Witness ==
    /\ Dimensioned
    /\ \E i \in 1..Len(nodes) : nodes[i].x = -200 /\ nodes[i].y = -200
    /\ hAdjustmentFactor = 41
    /\ vAdjustmentFactor = 41

\* C7: once the caller has asked for a recalculation after a geometry
\* change, the two cached matrices are never of different epochs: neither
\* is a value cached before the change while the other was recalculated.
C7_RefreshedAsUnit ==
    (/\ lastCall.op \in {"invalidate", "calculateCanvasMatrix", "calculateRoutingMatrix"}
     /\ ~lastCall.threw
     /\ epoch > 0
     /\ Len(C) > 0
     /\ Len(R) > 0)
        => canvasEpoch = routingEpoch

\* C8: when both matrices are populated, the routing matrix has as many rows
\* as the canvas matrix and each row as many columns as the canvas matrix's.
C8_SameShape ==
    (Len(C) > 0 /\ Len(R) > 0) =>
        /\ Len(R) = Len(C)
        /\ \A r \in 1..Len(R) : Len(R[r]) = Len(C[r])

\* C9: the canvas matrix is never written: every cell of it is 0 in every
\* state, and the routing matrix is another object than the canvas matrix.
C9_CanvasNeverMutated ==
    /\ canvasMatrix # routingMatrix
    /\ \A r \in 1..Len(C) : \A c \in 1..Len(C[r]) : C[r][c] = 0

\* Obstacles were written into the routing matrix next to a populated canvas matrix.
C9_Witness ==
    /\ Rasterized
    /\ Len(C) > 0
    /\ \E r \in 1..Len(R) : \E c \in 1..Len(R[r]) : R[r][c] = 1

\* C10: over all node, port and waypoint boxes, calculateMatrixDimensions
\* returns width = |minX| + maxX and hAdjustment = |minX|/s + 1 with
\* minX = floor(min(0, min x)/s)*s and maxX = max(max(x + width), viewport
\* width), and the same for height and vAdjustment with y and height.
C10_Dimensions ==
    allBoxes # {} =>
        calculateMatrixDimensions =
            [threw |-> FALSE,
             width |->
                MathAbs(MathFloorDiv(MathMin(0, SetMin({ b.x : b \in allBoxes })),
                                     ROUTING_SCALING_FACTOR) * ROUTING_SCALING_FACTOR)
                  + MathMax(SetMax({ b.x + b.width : b \in allBoxes }), offsetWidth),
             hAdjustmentFactor |->
                MathAbs(MathFloorDiv(MathMin(0, SetMin({ b.x : b \in allBoxes })),
                                     ROUTING_SCALING_FACTOR) * ROUTING_SCALING_FACTOR)
                  \div ROUTING_SCALING_FACTOR + 1,
             height |->
                MathAbs(MathFloorDiv(MathMin(0, SetMin({ b.y : b \in allBoxes })),
                                     ROUTING_SCALING_FACTOR) * ROUTING_SCALING_FACTOR)
                  + MathMax(SetMax({ b.y + b.height : b \in allBoxes }), offsetHeight),
             vAdjustmentFactor |->
                MathAbs(MathFloorDiv(MathMin(0, SetMin({ b.y : b \in allBoxes })),
                                     ROUTING_SCALING_FACTOR) * ROUTING_SCALING_FACTOR)
                  \div ROUTING_SCALING_FACTOR + 1]

\* The dimensions were calculated for a diagram with a port left of and a
\* waypoint below everything else, wider than the viewport.
C10_Witness ==
    /\ Dimensioned
    /\ Len(nodes) > 0
    /\ \E i \in 1..Len(links) : links[i].sourcePort # Null /\ links[i].points # <<>>
    /\ hAdjustmentFactor > 1
    /\ Len(C) * ROUTING_SCALING_FACTOR > offsetHeight + ROUTING_SCALING_FACTOR

\* C11: the canvas matrix that calculateCanvasMatrix has just allocated has
\* ceil(height / s) rows, each of ceil(width / s) columns, height and width
\* being those of calculateMatrixDimensions, and every cell of it is 0.
C11_CanvasMatrixAllocated ==
    Dimensioned =>
        /\ Len(C) = MathCeilDiv(calculateMatrixDimensions.height, ROUTING_SCALING_FACTOR)
        /\ \A r \in 1..Len(C) :
              /\ Len(C[r]) = MathCeilDiv(calculateMatrixDimensions.width, ROUTING_SCALING_FACTOR)
              /\ \A c \in 1..Len(C[r]) : C[r][c] = 0

\* A canvas matrix of 3 rows by 5 columns was allocated for dimensions that
\* are not multiples of the scaling factor (width 21, height 15).
C11_Witness ==
    /\ Dimensioned
    /\ calculateMatrixDimensions.width = 21
    /\ calculateMatrixDimensions.height = 15
    /\ Len(C) = 3
    /\ columnsOf(C) = 5

\* C12: round trip: the result of a translateRoutingX or translateRoutingY
\* call, translated in the other direction with the factors the factory
\* holds, is exactly the value the call was given, for every value.
C12_RoundTrip ==
    /\ lastCall.op = "translateRoutingX"
          => translateRoutingXNumber(This, lastCall.ret, ~lastCall.reverse) = lastCall.x
    /\ lastCall.op = "translateRoutingY"
          => translateRoutingYNumber(This, lastCall.ret, ~lastCall.reverse) = lastCall.x

\* x is an integer and |x| + a is at most 2^53.
isSafeTranslation(x, a) ==
    /\ \A e \in x.bits : e >= 0
    /\ ~bitsLess({53}, bitsAdd(x.bits, numberFromInt(a).bits))

\* C12 amended: the round trip is exact for every integer value v whose
\* magnitude plus the adjustment factor does not exceed 2^53.
C12_RoundTripSafeIntegers ==
    /\ (lastCall.op = "translateRoutingX" /\ isSafeTranslation(lastCall.x, hAdjustmentFactor))
          => translateRoutingXNumber(This, lastCall.ret, ~lastCall.reverse) = lastCall.x
    /\ (lastCall.op = "translateRoutingY" /\ isSafeTranslation(lastCall.x, vAdjustmentFactor))
          => translateRoutingYNumber(This, lastCall.ret, ~lastCall.reverse) = lastCall.x

\* Grid index 31 was translated back to diagram space with a factor of 41.
C12_Witness ==
    /\ lastCall.op = "translateRoutingX"
    /\ lastCall.reverse
    /\ hAdjustmentFactor = 41
    /\ lastCall.x = numberFromInt(31)
    /\ lastCall.ret = numberFromInt(-10)

\* The (column, row) pairs the rasterization of the present diagram passes
\* to markMatrixPoint, with the factors the factory holds.
rasterPoints ==
    UNION { nodePoints(This, b) : b \in obstacleBoxes }

\* (x, y) is a cell of matrix m
inBounds(m, x, y) == y \in 0..(Len(m) - 1) /\ x \in 0..(Len(m[y + 1]) - 1)

\* C13: a markMatrixPoint call with (x, y) outside the matrix raises no
\* error and leaves every matrix as it was, cells and shape; and a
\* rasterization pass some of whose writes fall outside the matrix completes,
\* with a routing matrix of the shape of the canvas matrix, all cells 0 or 1.
C13_OutOfRangeIgnored ==
    [][ /\ (lastCall'.op = "markMatrixPoint" /\ ~inBounds(R, lastCall'.x, lastCall'.y))
              => (~lastCall'.threw /\ heap' = heap)
        /\ (/\ lastCall'.op = "calculateRoutingMatrix"
            /\ \E p \in rasterPoints' : ~inBounds(R', p[1], p[2]))
              => /\ ~lastCall'.threw
                 /\ lastCall'.routingCalcs = 1
                 /\ Len(R') = Len(C')
                 /\ \A r \in 1..Len(R') :
                       /\ Len(R'[r]) = Len(C'[r])
                       /\ \A c \in 1..Len(R'[r]) : R'[r][c] \in {0, 1} ]_vars

\* A write one column right of the last column, in the first row, of a
\* routing matrix whose rasterization had writes outside the matrix.
C13_Witness ==
    /\ lastCall.op = "markMatrixPoint"
    /\ Len(R) > 0
    /\ lastCall.y = 0
    /\ lastCall.x = columnsOf(R)
    /\ routingEpoch = epoch
    /\ \E p \in rasterPoints : ~inBounds(R, p[1], p[2])

\* C14: generateDynamicPath called with no points fails (it throws) and
\* returns no path description.
C14_EmptyPathRejected ==
    (lastCall.op = "generateDynamicPath" /\ Len(lastCall.pathCoords) = 0)
        => (lastCall.threw /\ lastCall.ret = Undefined)

\* generateDynamicPath was called with no points.
C14_Witness ==
    /\ lastCall.op = "generateDynamicPath"
    /\ lastCall.pathCoords = <<>>
    /\ lastCall.threw

\* C15: for n >= 1 points generateDynamicPath returns n commands in the
\* order of the points: M p1.x*s p1.y*s, then L p.x*s p.y*s for every
\* further point, equal consecutive points included.
C15_PathCommands ==
    (lastCall.op = "generateDynamicPath" /\ Len(lastCall.pathCoords) >= 1)
        => /\ ~lastCall.threw
           /\ Len(lastCall.ret) = 3 * Len(lastCall.pathCoords)
           /\ \A i \in 1..Len(lastCall.pathCoords) :
                 /\ lastCall.ret[3 * i - 2] = (IF i = 1 THEN "M" ELSE "L")
                 /\ lastCall.ret[3 * i - 1] = lastCall.pathCoords[i][1] * ROUTING_SCALING_FACTOR
                 /\ lastCall.ret[3 * i] = lastCall.pathCoords[i][2] * ROUTING_SCALING_FACTOR

\* The path of (0,0), (2,3), (2,3) was emitted: M 0 0 L 10 15 L 10 15.
C15_Witness ==
    /\ lastCall.op = "generateDynamicPath"
    /\ lastCall.pathCoords = << <<0, 0>>, <<2, 3>>, <<2, 3>> >>
    /\ lastCall.ret = <<"M", 0, 0, "L", 10, 15, "L", 10, 15>>

\* Cell (x, y) of the matrix is in the padded rectangle of box b: translated
\* back by the factors held, it is in grid columns floor(x/s)-1 .. ceil((x+w)/s)+1
\* and grid rows floor(y/s)-1 .. ceil((y+h)/s)+1.
inPaddedRectangle(b, x, y) ==
    /\ translateRoutingX(This, x, TRUE)
          \in (MathFloorDiv(b.x, ROUTING_SCALING_FACTOR) - 1)
                ..(MathCeilDiv(b.x + b.width, ROUTING_SCALING_FACTOR) + 1)
    /\ translateRoutingY(This, y, TRUE)
          \in (MathFloorDiv(b.y, ROUTING_SCALING_FACTOR) - 1)
                ..(MathCeilDiv(b.y + b.height, ROUTING_SCALING_FACTOR) + 1)

\* The cells (column, row) of the matrix that box b itself covers.
ownCells(b) ==
    { <<translateRoutingX(This, col, FALSE), translateRoutingY(This, row, FALSE)>> :
        col \in coveredCells(b.x, b.width), row \in coveredCells(b.y, b.height) }

\* The links with one port null and the other not.
halfConnected ==
    { i \in 1..Len(links) : (links[i].sourcePort = Null) # (links[i].targetPort = Null) }

\* C16: in a diagram with a link of which one port is null and the other is
\* not, no matrix call throws; after rasterization every blocked cell is in
\* the padded rectangle of a node or of a non-null port, and the cells that
\* the link's other port covers are blocked where they are inside the matrix.
C16_NullPortSkipped ==
    halfConnected # {} =>
        /\ ~lastCall.threw
        /\ Rasterized =>
              /\ \A r \in 1..Len(R) : \A c \in 1..Len(R[r]) :
                    R[r][c] = 1 => \E b \in obstacleBoxes : inPaddedRectangle(b, c - 1, r - 1)
              /\ \A i \in halfConnected :
                    \A p \in ownCells(IF links[i].sourcePort = Null
                                      THEN links[i].targetPort ELSE links[i].sourcePort) :
                        inBounds(R, p[1], p[2]) => R[p[2] + 1][p[1] + 1] = 1

\* The routing matrix of a diagram without nodes, with one link from a port
\* to no port, was rasterized and the port's cells are blocked.
C16_Witness ==
    /\ Rasterized
    /\ nodes = <<>>
    /\ Len(links) = 1
    /\ links[1].sourcePort # Null
    /\ links[1].targetPort = Null
    /\ \E p \in ownCells(links[1].sourcePort) : inBounds(R, p[1], p[2]) /\ R[p[2] + 1][p[1] + 1] = 1

\* The factory's fields and the matrices they refer to are left as they were.
cacheUntouched ==
    UNCHANGED <<heap, canvasMatrix, routingMatrix, hAdjustmentFactor, vAdjustmentFactor,
                canvasEpoch, routingEpoch>>

\* C17: a getCanvasMatrix call that finds a canvas matrix of at least one
\* row, and a getRoutingMatrix call that finds a routing matrix of at least
\* one row, returns that matrix and changes neither a matrix nor a factor,
\* whatever has happened to the diagram since the matrix was calculated.
C17_StaleReads ==
    [][ /\ (lastCall'.op = "getCanvasMatrix" /\ Len(C) > 0)
              => /\ ~lastCall'.threw
                 /\ lastCall'.ret = canvasMatrix
                 /\ lastCall'.canvasCalcs = 0
                 /\ cacheUntouched
        /\ (lastCall'.op = "getRoutingMatrix" /\ Len(R) > 0)
              => /\ ~lastCall'.threw
                 /\ lastCall'.ret = routingMatrix
                 /\ lastCall'.canvasCalcs = 0
                 /\ lastCall'.routingCalcs = 0
                 /\ cacheUntouched ]_vars

\* The routing matrix calculated before the diagram changed was read after
\* the change, the factor held being another than that of the present diagram.
C17_Witness ==
    /\ lastCall.op = "getRoutingMatrix"
    /\ lastCall.routingCalcs = 0
    /\ epoch = 1
    /\ routingEpoch = 0
    /\ canvasEpoch = 0
    /\ Len(R) > 0
    /\ calculateMatrixDimensions.threw
          \/ hAdjustmentFactor # calculateMatrixDimensions.hAdjustmentFactor

factors == <<hAdjustmentFactor, vAdjustmentFactor>>

\* The factors change only in a call in which calculateCanvasMatrix ran.
factorsAssignedOnlyInCalculateCanvasMatrix ==
    factors' # factors => lastCall'.canvasCalcs >= 1

\* getRoutingMatrix on an empty cache calculates the canvas matrix and the
\* factors of the present diagram, and every cell it blocks is in a padded
\* rectangle translated by these factors.
factorsBeforeMarking ==
    (lastCall'.op = "getRoutingMatrix" /\ Len(C) = 0 /\ Len(R) = 0 /\ ~lastCall'.threw)
        => /\ lastCall'.canvasCalcs = 1
           /\ lastCall'.routingCalcs = 1
           /\ hAdjustmentFactor' = calculateMatrixDimensions.hAdjustmentFactor
           /\ vAdjustmentFactor' = calculateMatrixDimensions.vAdjustmentFactor
           /\ \A r \in 1..Len(R') : \A c \in 1..Len(R'[r]) :
                 R'[r][c] = 1 => \E b \in obstacleBoxes : inPaddedRectangle(b, c - 1, r - 1)'

\* While a populated routing matrix stays the factory's routing matrix, the
\* factors stay the ones it was rasterized with.
factorsOfRoutingMatrixKept ==
    (Len(R) > 0 /\ routingMatrix' = routingMatrix) => factors' = factors

\* C18: the factors are assigned only in calculateCanvasMatrix, getRoutingMatrix
\* on an empty cache calculates them before it marks a cell, and the factors
\* held next to a populated routing matrix are always those it was
\* rasterized with.
C18_FactorsOfRasterization ==
    [][ /\ factorsAssignedOnlyInCalculateCanvasMatrix
        /\ factorsBeforeMarking
        /\ factorsOfRoutingMatrixKept ]_vars

\* The waypoints of all links.
waypoints ==
    UNION { { links[i].points[j] : j \in 1..Len(links[i].points) } : i \in 1..Len(links) }

\* The cell (column, row) of the matrix that waypoint p lies in.
waypointCell(p) ==
    <<translateRoutingX(This, MathFloorDiv(p.x, ROUTING_SCALING_FACTOR), FALSE),
      translateRoutingY(This, MathFloorDiv(p.y, ROUTING_SCALING_FACTOR), FALSE)>>

\* C19: every cell of the routing matrix is 0 or 1; a cell that is 1 lies in
\* the translated padded rectangle of a node or of a non-null port of the
\* diagram; and the matrix reaches as far as every waypoint, which blocks
\* no cell.
C19_BlockedOnlyByObstacles ==
    /\ \A r \in 1..Len(R) : \A c \in 1..Len(R[r]) :
          /\ R[r][c] \in {0, 1}
          /\ R[r][c] = 1 => \E b \in obstacleBoxes : inPaddedRectangle(b, c - 1, r - 1)
    /\ Rasterized =>
          \A p \in waypoints :
              /\ columnsOf(R) * ROUTING_SCALING_FACTOR >= p.x
              /\ Len(R) * ROUTING_SCALING_FACTOR >= p.y

\* A rasterized routing matrix with blocked cells, and a waypoint whose cell
\* is in the matrix, outside every padded rectangle, and free.
C19_Witness ==
    /\ Rasterized
    /\ \E r \in 1..Len(R) : \E c \in 1..Len(R[r]) : R[r][c] = 1
    /\ \E p \in waypoints :
          /\ inBounds(R, waypointCell(p)[1], waypointCell(p)[2])
          /\ \A b \in obstacleBoxes : ~inPaddedRectangle(b, waypointCell(p)[1], waypointCell(p)[2])
          /\ R[waypointCell(p)[2] + 1][waypointCell(p)[1] + 1] = 0

\* C20: after a mouse-move event every selected, unlocked, positioned item is
\* at the position it had at its first move event of this activation plus
\* the displacement of this event; in no step does a locked item change its
\* position; and right after activated no initial position is recorded.
C20_MovedFromInitialPosition ==
    [][ /\ (lastEvent'.op = "fireMouseMoved" /\ ~lastEvent'.threw)
              => \A i \in DOMAIN items' :
                    isMoved(items'[i])
                        => /\ i \in DOMAIN moveStart'
                           /\ items'[i].position.x = moveStart'[i].x + lastEvent'.virtualDisplacementX
                           /\ items'[i].position.y = moveStart'[i].y + lastEvent'.virtualDisplacementY
        /\ \A i \in DOMAIN items : items[i].locked => items'[i].position = items[i].position
        /\ lastEvent'.op = "activated" => initialPositions' = Positions(<<>>) ]_vars

\* C20, as far as it follows from MoveItemsState alone: after a mouse-move
\* event every selected, unlocked, positioned item is at the position held
\* for it in initialPositions before the item was moved, plus the displacement
\* of this event; that position is the one recorded at the item's first move
\* event of this activation as long as the kept object has kept its value; in
\* no step does a locked item change its position; and right after activated
\* no initial position is recorded.
C20_MovedFromKeptPosition ==
    [][ /\ (lastEvent'.op = "fireMouseMoved" /\ ~lastEvent'.threw)
              => \A i \in DOMAIN items' :
                    isMoved(items'[i])
                        => /\ i \in DOMAIN moveStart'
                           /\ i \in DOMAIN initialPositions'.entries
                           /\ (i \in DOMAIN initialPositions.entries
                                 => /\ items'[i].position.x
                                         = initialPositions.entries[i].x + lastEvent'.virtualDisplacementX
                                    /\ items'[i].position.y
                                         = initialPositions.entries[i].y + lastEvent'.virtualDisplacementY)
                           /\ (i \notin DOMAIN initialPositions.entries
                                 => /\ moveStart'[i] = items[i].position
                                    /\ items'[i].position.x
                                         = items[i].position.x + lastEvent'.virtualDisplacementX
                                    /\ items'[i].position.y
                                         = items[i].position.y + lastEvent'.virtualDisplacementY)
                           /\ (~positionsShared => initialPositions'.entries[i] = moveStart'[i])
        /\ \A i \in DOMAIN items : items[i].locked => items'[i].position = items[i].position
        /\ lastEvent'.op = "activated" => initialPositions' = Positions(<<>>) ]_vars

\* Two items were moved in the second activation, by a second event of that
\* activation, from positions that the first activation had moved them to,
\* and they are where they were at the first event of the activation plus
\* the displacement of the second event alone.
C20_Witness ==
    /\ lastEvent.op = "fireMouseMoved"
    /\ activations = 2
    /\ moveEvents = 2
    /\ Len(items) = 2
    /\ \A i \in DOMAIN items : isMoved(items[i])
    /\ lastEvent.virtualDisplacementX = -4
    /\ items[1].position = Point(10 + 3 - 4, 5 - 2 + 1)
    /\ moveStart[1] = Point(13, 3)

\* The same two events with shared positions: the second displacement was
\* added to the position the first event had left the item at.
C20_Accumulated ==
    /\ lastEvent.op = "fireMouseMoved"
    /\ positionsShared
    /\ moveEvents = 2
    /\ \E i \in DOMAIN items :
          /\ isMoved(items[i])
          /\ i \in DOMAIN moveStart
          /\ lastEvent.virtualDisplacementX = -4
          /\ items[i].position.x = moveStart[i].x + 3 - 4

====
